---- MODULE Spec2Model ----
(***************************************************************************)
(* Stress-detection service: the load-or-fallback model lifecycle, input   *)
(* validation, single and batch prediction (server/predict.py), the        *)
(* process-wide predictor singleton, the trainer that writes the artifact  *)
(* the service loads (ml_logic/train.py), the HTTP views (server/app.py)   *)
(* and the preprocessing functions (ml_logic/preprocessing.py).            *)
(*                                                                         *)
(* Numbers.  A Python float is [k, n]: k = "fin" with n the value in       *)
(* thousandths, or k = "inf" with n the sign.  A probability is a vote     *)
(* weight over the total weight of its vector, an exact rational, so that  *)
(* round(p, 4) is computed exactly; a rounded probability is an integer    *)
(* count of 1e-4 units.                                                    *)
(***************************************************************************)
EXTENDS Integers, Sequences, FiniteSets, TLC

VARIABLES
    fs,          \* the file at the model path
    trainer,     \* the ModelTrainer object: its model and metrics
    gpredictor,  \* the module global _predictor: 0 is None, else a heap index
    app_predictor, \* the attribute app.predictor: 0 is unset, else a heap index
    heap,        \* every StressPredictor constructed so far, in order
    pc,          \* per request thread: its position in get_predictor
    held,        \* per request thread: the instance its last call returned
    call         \* the last call made and its outcome; a prediction's outcome
                 \* stays until it is delivered to the caller

vars == <<fs, trainer, gpredictor, app_predictor, heap, pc, held, call>>

(***************************************************************************)
(* Bounds                                                                  *)
(***************************************************************************)
\* at most this many of the keys present in an input carry a value other
\* than an ordinary number
MaxOdd == 2
\* leaf vote weights of a fitted forest range over 1..MaxWeight
MaxWeight == 2
\* batch_predict is called with lists of up to this many elements
MaxBatch == 2
\* request threads calling get_predictor concurrently
NThreads == 2
\* the feature matrices handed to remove_outliers have up to this many rows
MaxRows == 3
\* the feature matrices handed to augment_features have up to this many rows
MaxAugRows == 2

(***************************************************************************)
(* Python values                                                           *)
(***************************************************************************)
PyInt(n) == [t |-> "int", n |-> n, s |-> ""]
PyFloat(k, n) == [t |-> "float", n |-> n, s |-> k]
PyStr(s) == [t |-> "str", n |-> 0, s |-> s]
PyNone == [t |-> "none", n |-> 0, s |-> ""]
\* an int beyond the range of a float, such as 10**400
PyBigInt == [t |-> "bigint", n |-> 1, s |-> ""]

Fin(n) == [exc |-> "", k |-> "fin", n |-> n]
Inf(sign) == [exc |-> "", k |-> "inf", n |-> sign]
Raise(e) == [exc |-> e, k |-> "", n |-> 0]

\* float(str) on the strings of the input universe
ParseFloat(s) ==
    CASE s = "0.5" -> Fin(500)
      [] s = "-3" -> Fin(-3000)
      [] s = "inf" -> Inf(1)
      [] OTHER -> Raise("ValueError")

\* the builtin float(v)
float(v) ==
    CASE v.t = "int" -> Fin(v.n * 1000)
      [] v.t = "float" -> [exc |-> "", k |-> v.s, n |-> v.n]
      [] v.t = "bigint" -> Raise("OverflowError")
      [] v.t = "str" -> ParseFloat(v.s)
      [] OTHER -> Raise("TypeError")

\* value < 0 on a float
IsNegative(x) == x.n < 0

(***************************************************************************)
(* Inputs: what a caller can hand to predict                               *)
(***************************************************************************)
feature_names == <<"heart_rate", "ecg", "emg", "gsr", "resp">>
stress_classes == <<"low", "medium", "high">>

FeatureSet == {feature_names[i] : i \in 1..Len(feature_names)}

Ordinary == PyInt(75)
OddValues ==
    { PyStr("0.5"), PyInt(-1), PyStr("abc"), PyNone, PyBigInt, PyFloat("inf", 1) }

\* a dict: its keys and its values
Dict(keys, vals) == [t |-> "dict", keys |-> keys, vals |-> vals]
\* a list of strings, a string (keys: the feature names it contains), None, a number
NonDict(t, keys) == [t |-> t, keys |-> keys, vals |-> [k \in {} |-> PyNone]]

Mappings ==
    UNION { { Dict(keys, [k \in keys |-> IF k \in odd THEN v[k] ELSE Ordinary]) :
                v \in [odd -> OddValues] } :
            <<keys, odd>> \in { <<ks, od>> \in (SUBSET FeatureSet) \X (SUBSET FeatureSet) :
                                  od \subseteq ks /\ Cardinality(od) <= MaxOdd } }

NonMappings ==
    { NonDict("list", {}), NonDict("list", FeatureSet), NonDict("str", {}),
      NonDict("str", FeatureSet), NonDict("none", {}), NonDict("int", {}) }

\* f in data
Contains(data, f) ==
    IF data.t \in {"dict", "list", "str"}
    THEN [exc |-> "", b |-> f \in data.keys]
    ELSE [exc |-> "TypeError", b |-> FALSE]

\* data[f], f a string
GetItem(data, f) ==
    IF data.t = "dict" /\ f \in data.keys
    THEN [exc |-> "", v |-> data.vals[f]]
    ELSE [exc |-> IF data.t = "dict" THEN "KeyError" ELSE "TypeError", v |-> PyNone]

(***************************************************************************)
(* The classifier                                                          *)
(*                                                                         *)
(* A fitted forest is abstracted to what predict reads of it: classes (the *)
(* sorted distinct labels it was fitted on, classes_), nfeat (the number   *)
(* of columns it was fitted on), class_weight (the hyperparameter that     *)
(* tells a trained model from the mock one), and one split on the first    *)
(* column with the vote weights of its two leaves.                         *)
(***************************************************************************)
NoModel ==
    [classes |-> <<>>, nfeat |-> 0, class_weight |-> "", thr |-> 0,
     left |-> <<>>, right |-> <<>>]

\* RandomForestClassifier(class_weight=...).fit(X, y): labels are the sorted
\* distinct values of y, nfeat the columns of X, w the weight the data put
\* on the majority class of each leaf
Fit(labels, nfeat, w, class_weight) ==
    [classes |-> labels, nfeat |-> nfeat, class_weight |-> class_weight,
     thr |-> 50000,
     left |-> [i \in 1..Len(labels) |-> IF i = 1 THEN w ELSE 1],
     right |-> [i \in 1..Len(labels) |-> IF i = Len(labels) THEN w ELSE 1]]

\* RandomForestClassifier(...) before fit
Unfitted(class_weight) ==
    [classes |-> <<>>, nfeat |-> 0, class_weight |-> class_weight, thr |-> 0,
     left |-> <<>>, right |-> <<>>]

Weights == 1..MaxWeight

\* the label sets of the datasets a model is trained on
LabelSets == { <<0, 1, 2>>, <<0, 1>>, <<0, 2>>, <<2>>, <<1, 2, 3>> }
\* the column counts: the 5 base features, or the 8 augmented ones
ColumnCounts == {5, 8}

\* the models ModelTrainer.train can produce
TrainedModels ==
    { Fit(labels, nfeat, w, "balanced") :
        labels \in LabelSets, nfeat \in ColumnCounts, w \in Weights }

\* the label sets np.random.choice([0, 1, 2], 100) can produce
MockLabelSets == { <<0, 1, 2>>, <<0, 2>>, <<1>> }

\* the models _create_mock_model can return
MockModels == { Fit(labels, 5, w, "none") : labels \in MockLabelSets, w \in Weights }

RECURSIVE SumSeq(_)
SumSeq(q) == IF q = <<>> THEN 0 ELSE Head(q) + SumSeq(Tail(q))

\* np.argmax / max over a vector: the first index of the greatest entry
ArgMax(q) == CHOOSE i \in 1..Len(q) :
                /\ \A j \in 1..Len(q) : q[j] <= q[i]
                /\ \A j \in 1..(i - 1) : q[j] < q[i]

\* the input check of model.predict / model.predict_proba
ModelCheck(model, features) ==
    IF model = NoModel THEN "AttributeError"
    ELSE IF model.classes = <<>> THEN "NotFittedError"
    ELSE IF Len(features) # model.nfeat THEN "ValueError"
    ELSE IF \E i \in 1..Len(features) : features[i].k # "fin" THEN "ValueError"
    ELSE ""

\* model.predict_proba(features)[0], as vote weights
predict_proba(model, features) ==
    IF features[1].n < model.thr THEN model.left ELSE model.right

\* model.predict(features)[0]: the label of the most probable class
model_predict(model, features) ==
    model.classes[ArgMax(predict_proba(model, features))]

\* round called with 3 digits instead of 4
Round3(num, den) ==
    LET q == (num * 1000) \div den
        r == (num * 1000) % den
    IN  10 * (IF 2 * r < den THEN q
              ELSE IF 2 * r > den THEN q + 1
              ELSE IF q % 2 = 0 THEN q ELSE q + 1)

\* round(num/den, 4) in units of 1e-4, half to even
Round4(num, den) ==
    LET q == (num * 10000) \div den
        r == (num * 10000) % den
    IN  IF 2 * r < den THEN q
        ELSE IF 2 * r > den THEN q + 1
        ELSE IF q % 2 = 0 THEN q ELSE q + 1

(***************************************************************************)
(* StressPredictor                                                         *)
(***************************************************************************)
NoError == [msg |-> "", names |-> <<>>]
Error(msg, names) == [msg |-> msg, names |-> names]

\* only the first missing feature is reported
MissingFeaturesFirstOnly(self, data) ==
    LET all == SelectSeq(self.feature_names, LAMBDA f : ~Contains(data, f).b)
    IN  IF all = <<>> THEN <<>> ELSE <<Head(all)>>

\* the list comprehension of validate_input: the required features not in data
MissingFeatures(self, data) ==
    SelectSeq(self.feature_names, LAMBDA f : ~Contains(data, f).b)

\* the loop of validate_input without its test value < 0
RECURSIVE CheckValuesNoSign(_, _, _)
CheckValuesNoSign(self, data, i) ==
    IF i > Len(self.feature_names)
    THEN [exc |-> "", valid |-> TRUE, error |-> NoError]
    ELSE LET feature == self.feature_names[i]
             item == GetItem(data, feature)
             value == float(item.v)
         IN  IF item.exc \in {"ValueError", "TypeError"}
                \/ (item.exc = "" /\ value.exc \in {"ValueError", "TypeError"})
             THEN [exc |-> "", valid |-> FALSE,
                   error |-> Error("must be a number", <<feature>>)]
             ELSE IF item.exc # ""
             THEN [exc |-> item.exc, valid |-> FALSE, error |-> NoError]
             ELSE IF value.exc # ""
             THEN [exc |-> value.exc, valid |-> FALSE, error |-> NoError]
             ELSE CheckValuesNoSign(self, data, i + 1)

\* the loop of validate_input from the i-th required feature on
RECURSIVE CheckValues(_, _, _)
CheckValues(self, data, i) ==
    IF i > Len(self.feature_names)
    THEN [exc |-> "", valid |-> TRUE, error |-> NoError]
    ELSE LET feature == self.feature_names[i]
             item == GetItem(data, feature)
             value == float(item.v)
         IN  IF item.exc \in {"ValueError", "TypeError"}
             THEN [exc |-> "", valid |-> FALSE,
                   error |-> Error("must be a number", <<feature>>)]
             ELSE IF item.exc # ""
             THEN [exc |-> item.exc, valid |-> FALSE, error |-> NoError]
             ELSE IF value.exc \in {"ValueError", "TypeError"}
             THEN [exc |-> "", valid |-> FALSE,
                   error |-> Error("must be a number", <<feature>>)]
             ELSE IF value.exc # ""
             THEN [exc |-> value.exc, valid |-> FALSE, error |-> NoError]
             ELSE IF IsNegative(value)
             THEN [exc |-> "", valid |-> FALSE,
                   error |-> Error("must be non-negative", <<feature>>)]
             ELSE CheckValues(self, data, i + 1)

\* StressPredictor.validate_input: exc is the exception that escapes it, if any
validate_input(self, data) ==
    IF self.feature_names # <<>> /\ Contains(data, self.feature_names[1]).exc # ""
    THEN [exc |-> Contains(data, self.feature_names[1]).exc, valid |-> FALSE,
          error |-> NoError]
    ELSE IF MissingFeatures(self, data) # <<>>
    THEN [exc |-> "", valid |-> FALSE,
          error |-> Error("Missing features", MissingFeatures(self, data))]
    ELSE CheckValues(self, data, 1)

\* what a call gives back: the exception that escaped it, or its value
Raised(e) == [exc |-> e, res |-> <<>>]
Returned(r) == [exc |-> "", res |-> r]

\* the dictionary predict returns on a validation or inference failure
ErrorResult(error) ==
    [keys |-> {"error", "stress_level", "confidence"}, error |-> error,
     stress_level |-> "None", confidence |-> 0,
     probabilities |-> [l \in {} |-> 0], features_used |-> <<>>]

\* whether list[i] is defined for a Python index i (negative indices wrap)
IndexOk(list, i) == -Len(list) <= i /\ i < Len(list)
\* list[i] for a Python index i
Index(list, i) == IF i < 0 THEN list[i + Len(list) + 1] ELSE list[i + 1]

\* {self.stress_classes[i]: float(prob) for i, prob in enumerate(probabilities)},
\* each value then rounded to 4 digits
ProbDict(self, probabilities) ==
    [l \in {self.stress_classes[i] : i \in 1..Len(probabilities)} |->
        LET i == CHOOSE j \in 1..Len(probabilities) : self.stress_classes[j] = l
        IN  Round4(probabilities[i], SumSeq(probabilities))]

\* round(float(max(probabilities)), 4)
Confidence(probabilities) ==
    Round4(probabilities[ArgMax(probabilities)], SumSeq(probabilities))

\* the try block of predict, after validation
Infer(self, data) ==
    LET features == [i \in 1..Len(self.feature_names) |->
                        float(GetItem(data, self.feature_names[i]).v)]
        failed == ModelCheck(self.model, features)
        prediction == model_predict(self.model, features)
        probabilities == predict_proba(self.model, features)
    IN  IF failed # ""
        THEN ErrorResult(Error("Prediction failed", <<failed>>))
        ELSE IF ~IndexOk(self.stress_classes, prediction)
                \/ Len(probabilities) > Len(self.stress_classes)
        THEN ErrorResult(Error("Prediction failed", <<"IndexError">>))
        ELSE [keys |-> {"stress_level", "confidence", "probabilities", "features_used"},
              error |-> NoError,
              stress_level |-> Index(self.stress_classes, prediction),
              confidence |-> Confidence(probabilities),
              probabilities |-> ProbDict(self, probabilities),
              features_used |-> self.feature_names]

\* StressPredictor.predict
predict(self, data) ==
    LET v == validate_input(self, data)
    IN  IF v.exc # "" THEN Raised(v.exc)
        ELSE IF ~v.valid THEN Returned(ErrorResult(v.error))
        ELSE Returned(Infer(self, data))

\* StressPredictor.batch_predict: [self.predict(data) for data in data_list],
\* the list of results, or the first exception an element's predict lets
\* escape
batch_predict(self, data_list) ==
    LET outs == [i \in 1..Len(data_list) |-> predict(self, data_list[i])]
        raised == { i \in 1..Len(data_list) : outs[i].exc # "" }
    IN  IF raised # {}
        THEN Raised(outs[CHOOSE i \in raised : \A j \in raised : i <= j].exc)
        ELSE Returned([i \in 1..Len(data_list) |-> outs[i].res])

(***************************************************************************)
(* The model artifact and the trainer                                      *)
(***************************************************************************)
Absent == [kind |-> "absent", bytes |-> <<>>]
\* exists, but open() fails
Unreadable == [kind |-> "unreadable", bytes |-> <<>>]
\* exists, but is no pickle: truncated or foreign
Corrupt == [kind |-> "corrupt", bytes |-> <<>>]
File(bytes) == [kind |-> "file", bytes |-> bytes]

\* pickle.dump(model, f): the bytes written
pickle_dump(model) ==
    <<"RandomForestClassifier", model.class_weight, model.nfeat, model.thr,
      model.classes, model.left, model.right>>

\* pickle.load(f) of bytes pickle_dump wrote
pickle_load(bytes) ==
    [classes |-> bytes[5], nfeat |-> bytes[3], class_weight |-> bytes[2],
     thr |-> bytes[4], left |-> bytes[6], right |-> bytes[7]]

\* the try block of load_model: the model read, "mock" when the path does
\* not exist, or the exception open() or pickle.load() raises
TryLoad(file) ==
    CASE file.kind = "absent" -> [exc |-> "", mock |-> TRUE, model |-> NoModel]
      [] file.kind = "unreadable" ->
            [exc |-> "PermissionError", mock |-> FALSE, model |-> NoModel]
      [] file.kind = "corrupt" ->
            [exc |-> "UnpicklingError", mock |-> FALSE, model |-> NoModel]
      [] OTHER -> [exc |-> "", mock |-> FALSE, model |-> pickle_load(file.bytes)]

\* load_model with its os.path.exists test inverted: an existing file gets
\* the mock model, a missing one fails to open and gets it from the handler
load_model_inverted_test(file, mock) == [exc |-> "", model |-> mock]

\* load_model without its except clause
load_model_no_except(file, mock) ==
    LET try == TryLoad(file)
    IN  IF try.exc # "" THEN [exc |-> try.exc, model |-> NoModel]
        ELSE IF try.mock THEN [exc |-> "", model |-> mock]
        ELSE [exc |-> "", model |-> try.model]

\* StressPredictor.load_model, `mock` being what _create_mock_model returns:
\* the exception that escapes, and the model the instance ends up with
load_model(file, mock) ==
    LET try == TryLoad(file)
    IN  IF try.exc # "" THEN [exc |-> "", model |-> mock]
        ELSE IF try.mock THEN [exc |-> "", model |-> mock]
        ELSE [exc |-> "", model |-> try.model]

\* StressPredictor.__init__: the exception that escapes, and the instance
StressPredictor(file, mock) ==
    [exc |-> load_model(file, mock).exc,
     obj |-> [model |-> load_model(file, mock).model,
              feature_names |-> feature_names,
              stress_classes |-> stress_classes]]

NoCall == [op |-> "", data |-> <<>>, out |-> Raised("")]

Threads == 1..NThreads

\* ModelTrainer.__init__: no model, empty metrics (metrics are kept as the
\* model they were computed from)
NewTrainer == [model |-> NoModel, metrics |-> NoModel]

\* a dataset handed to train: its labels, its columns, the leaf weight it
\* induces, whether the stratified split accepts it and whether fit does
Dataset(labels, nfeat, w, splits, fits) ==
    [labels |-> labels, nfeat |-> nfeat, w |-> w, splits |-> splits, fits |-> fits]

\* the datasets: those train succeeds on, one with a class of a single
\* member (the stratified split raises), one fit raises on
Datasets ==
    { Dataset(labels, nfeat, w, TRUE, TRUE) :
        labels \in LabelSets, nfeat \in ColumnCounts, w \in Weights }
      \cup { Dataset(<<0, 1, 2>>, 5, 1, FALSE, TRUE),
              Dataset(<<0, 1, 2>>, 5, 1, TRUE, FALSE) }

(***************************************************************************)
(* Operations                                                              *)
(***************************************************************************)
\* a prediction was made and its outcome is not yet with the caller
Pending == call.op \in {"predict", "batch_predict"}

\* the outcome of a prediction reaches the caller
Deliver ==
    /\ Pending
    /\ call' = NoCall
    /\ UNCHANGED <<fs, trainer, gpredictor, app_predictor, heap, pc, held>>

\* ModelTrainer.train(X, y) on the dataset ds
TrainOn(ds) ==
    /\ IF ~ds.splits
       THEN /\ UNCHANGED trainer
            /\ call' = [op |-> "train", data |-> ds, out |-> Raised("ValueError")]
       ELSE IF ~ds.fits
       THEN /\ trainer' = [trainer EXCEPT !.model = Unfitted("balanced")]
            /\ call' = [op |-> "train", data |-> ds, out |-> Raised("ValueError")]
       ELSE /\ trainer' = [model |-> Fit(ds.labels, ds.nfeat, ds.w, "balanced"),
                           metrics |-> Fit(ds.labels, ds.nfeat, ds.w, "balanced")]
            /\ call' = [op |-> "train", data |-> ds, out |-> Returned("success")]
    /\ UNCHANGED <<fs, gpredictor, app_predictor, heap, pc, held>>

\* save_model() without its except clause: a failing write raises
SaveModelWithNoExcept(io) ==
    /\ IF trainer.model = NoModel
       THEN /\ UNCHANGED fs
            /\ call' = [op |-> "save_model", data |-> <<>>, out |-> Returned(FALSE)]
       ELSE IF io = "open"
       THEN /\ UNCHANGED fs
            /\ call' = [op |-> "save_model", data |-> <<>>, out |-> Raised("OSError")]
       ELSE IF io = "dump"
       THEN /\ fs' = Corrupt
            /\ call' = [op |-> "save_model", data |-> <<>>, out |-> Raised("PicklingError")]
       ELSE /\ fs' = File(pickle_dump(trainer.model))
            /\ call' = [op |-> "save_model", data |-> <<>>, out |-> Returned(TRUE)]
    /\ UNCHANGED <<trainer, gpredictor, app_predictor, heap, pc, held>>

\* save_model() when the write goes as io says
SaveModelWith(io) ==
    /\ IF trainer.model = NoModel
       THEN /\ UNCHANGED fs
            /\ call' = [op |-> "save_model", data |-> <<>>, out |-> Returned(FALSE)]
       ELSE IF io = "open"
       THEN /\ UNCHANGED fs
            /\ call' = [op |-> "save_model", data |-> <<>>, out |-> Returned(FALSE)]
       ELSE IF io = "dump"
       THEN /\ fs' = Corrupt
            /\ call' = [op |-> "save_model", data |-> <<>>, out |-> Returned(FALSE)]
       ELSE /\ fs' = File(pickle_dump(trainer.model))
            /\ call' = [op |-> "save_model", data |-> <<>>, out |-> Returned(TRUE)]
    /\ UNCHANGED <<trainer, gpredictor, app_predictor, heap, pc, held>>

\* get_predictor(), called with no other call in progress
GetPredictor ==
    /\ ~Pending
    /\ IF gpredictor # 0
       THEN /\ UNCHANGED <<heap, gpredictor>>
            /\ call' = [op |-> "get_predictor", data |-> <<>>,
                        out |-> Returned(gpredictor)]
       ELSE \E mock \in MockModels :
              LET new == StressPredictor(fs, mock)
              IN  IF new.exc # ""
                  THEN /\ UNCHANGED <<heap, gpredictor>>
                       /\ call' = [op |-> "get_predictor", data |-> <<>>,
                                   out |-> Raised(new.exc)]
                  ELSE /\ heap' = Append(heap, new.obj)
                       /\ gpredictor' = Len(heap) + 1
                       /\ call' = [op |-> "get_predictor", data |-> <<>>,
                                   out |-> Returned(Len(heap) + 1)]
    /\ UNCHANGED <<fs, trainer, app_predictor, pc, held>>

\* _predictor.predict(data), for a data of inputs
Predict(inputs) ==
    /\ gpredictor # 0
    /\ ~Pending
    /\ \E data \in inputs :
          call' = [op |-> "predict", data |-> data,
                   out |-> predict(heap[gpredictor], data)]
    /\ UNCHANGED <<fs, trainer, gpredictor, app_predictor, heap, pc, held>>

\* _predictor.batch_predict(data_list), for a data_list of lists
BatchPredict(lists) ==
    /\ gpredictor # 0
    /\ ~Pending
    /\ \E data_list \in lists :
          call' = [op |-> "batch_predict", data |-> data_list,
                   out |-> batch_predict(heap[gpredictor], data_list)]
    /\ UNCHANGED <<fs, trainer, gpredictor, app_predictor, heap, pc, held>>

\* ModelTrainer.train(X, y) on a dataset of datasets: the split raises before
\* anything is assigned; fit raises after self.model was assigned the new,
\* unfitted classifier
Train(datasets) ==
    \E ds \in datasets : TrainOn(ds)

\* ModelTrainer.save_model(): io is how the write goes: "ok", "open" (open
\* fails, the file is untouched) or "dump" (the file was opened, so truncated,
\* and pickle.dump fails)
SaveModel ==
    \E io \in {"ok", "open", "dump"} : SaveModelWith(io)

(***************************************************************************)
(* get_predictor under concurrent request threads (before_request)         *)
(***************************************************************************)
\* before_request: if not hasattr(app, 'predictor'), enter get_predictor
BeforeRequest(t) ==
    /\ pc[t] = "idle"
    /\ pc' = [pc EXCEPT ![t] = IF app_predictor = 0 THEN "test" ELSE "served"]
    /\ UNCHANGED <<fs, trainer, gpredictor, app_predictor, heap, held, call>>

\* if _predictor is None
TestNone(t) ==
    /\ pc[t] = "test"
    /\ pc' = [pc EXCEPT ![t] = IF gpredictor = 0 THEN "construct" ELSE "return"]
    /\ UNCHANGED <<fs, trainer, gpredictor, app_predictor, heap, held, call>>

\* StressPredictor(): the instance is built, and not yet stored
Construct(t) ==
    /\ pc[t] = "construct"
    /\ \E mock \in MockModels :
          LET new == StressPredictor(fs, mock)
          IN  IF new.exc # ""
              THEN /\ pc' = [pc EXCEPT ![t] = "failed"]
                   /\ UNCHANGED <<heap, held>>
              ELSE /\ heap' = Append(heap, new.obj)
                   /\ held' = [held EXCEPT ![t] = Len(heap) + 1]
                   /\ pc' = [pc EXCEPT ![t] = "store"]
    /\ UNCHANGED <<fs, trainer, gpredictor, app_predictor, call>>

\* _predictor = <the new instance>
Store(t) ==
    /\ pc[t] = "store"
    /\ gpredictor' = held[t]
    /\ pc' = [pc EXCEPT ![t] = "return"]
    /\ UNCHANGED <<fs, trainer, app_predictor, heap, held, call>>

\* return _predictor; app.predictor = <the value returned>
Return(t) ==
    /\ pc[t] = "return"
    /\ held' = [held EXCEPT ![t] = gpredictor]
    /\ app_predictor' = gpredictor
    /\ pc' = [pc EXCEPT ![t] = "served"]
    /\ UNCHANGED <<fs, trainer, gpredictor, heap, call>>

\* the request is over; the thread takes the next one
NextRequest(t) ==
    /\ pc[t] = "served"
    /\ pc' = [pc EXCEPT ![t] = "idle"]
    /\ UNCHANGED <<fs, trainer, gpredictor, app_predictor, heap, held, call>>

(***************************************************************************)
(* Specifications                                                          *)
(***************************************************************************)
\* the artifacts the model path can hold when the service starts
Artifacts ==
    {Absent, Unreadable, Corrupt}
        \cup { File(pickle_dump(m)) : m \in TrainedModels \cup {Unfitted("balanced")} }

InitCommon ==
    /\ trainer = NewTrainer
    /\ gpredictor = 0
    /\ app_predictor = 0
    /\ heap = <<>>
    /\ pc = [t \in Threads |-> "idle"]
    /\ held = [t \in Threads |-> 0]
    /\ call = NoCall

\* the service: one caller, any artifact, any input mapping
InitPredict == fs \in Artifacts /\ InitCommon
NextPredict == GetPredictor \/ Deliver \/ Predict(Mappings)
SpecPredict == InitPredict /\ [][NextPredict]_vars

(***************************************************************************)
(* Properties of predict and validate_input (SpecPredict)                  *)
(***************************************************************************)
\* the instance the last prediction was made on
Self == heap[gpredictor]
\* the last call was predict on a dict
PredictedOnDict == call.op = "predict" /\ call.data.t = "dict"
\* predict returned (nothing escaped it) and this is the dictionary
Res == call.out.res

\* a value is negative or non-numeric: float() raises ValueError or
\* TypeError on it, or gives a negative number
NegativeOrNonNumeric(v) ==
    \/ float(v).exc \in {"ValueError", "TypeError"}
    \/ float(v).exc = "" /\ float(v).n < 0

\* a value is a non-negative real number, possibly written as a string
NonNegativeReal(v) == float(v).exc = "" /\ float(v).k = "fin" /\ float(v).n >= 0

\* the required keys the input lacks
MissingKeys(data) == FeatureSet \ data.keys

\* q lists exactly the names in S, in the order of feature_names
ListsInOrder(q, S) ==
    /\ {q[i] : i \in 1..Len(q)} = S
    /\ Len(q) = Cardinality(S)
    /\ \A i, j \in 1..Len(q) :
          i < j => \E a, b \in 1..Len(feature_names) :
                      a < b /\ feature_names[a] = q[i] /\ feature_names[b] = q[j]

\* the result is an error result: error populated, stress_level null,
\* confidence 0.0
IsErrorResult(r) ==
    /\ "error" \in r.keys
    /\ r.error # NoError
    /\ r.stress_level = "None"
    /\ r.confidence = 0

\* C1: no exception escapes predict, whatever the input mapping and whatever
\* the model: every call of predict on a mapping returns a result.
C1_NoExceptionEscapes ==
    PredictedOnDict => call.out.exc = ""

\* C2: for an input mapping that lacks a required key, predict returns an
\* error result that lists exactly the missing feature names, with
\* stress_level null and confidence 0.0, and the model plays no part: the
\* result is the one an instance holding no model at all gives.
C2_MissingKeysReported ==
    (PredictedOnDict /\ MissingKeys(call.data) # {}) =>
        /\ call.out.exc = ""
        /\ IsErrorResult(Res)
        /\ Res.error.msg = "Missing features"
        /\ ListsInOrder(Res.error.names, MissingKeys(call.data))
        /\ call.out = predict([Self EXCEPT !.model = NoModel], call.data)

\* C2 witness: keys are missing while a present value is out of float range
\* and another is negative, and the missing names are what is reported
C2_Witness ==
    /\ PredictedOnDict
    /\ call.data.keys = {"heart_rate", "gsr"}
    /\ call.data.vals["heart_rate"] = PyBigInt
    /\ call.data.vals["gsr"] = PyInt(-1)
    /\ call.out.exc = ""
    /\ Res.error.names = <<"ecg", "emg", "resp">>

FirstRejected(data) ==
    LET bad == { i \in 1..Len(feature_names) :
                    LET x == float(data.vals[feature_names[i]])
                    IN  x.exc # "" \/ x.n < 0 }
    IN  IF bad = {} THEN 0 ELSE CHOOSE i \in bad : \A j \in bad : i <= j

Succeeded ==
    /\ call.op = "predict"
    /\ call.out.exc = ""
    /\ "error" \notin Res.keys

\* the sum and the maximum of the values of a probabilities mapping
RECURSIVE SumOver(_, _)
SumOver(f, S) ==
    IF S = {} THEN 0
    ELSE LET x == CHOOSE y \in S : TRUE IN f[x] + SumOver(f, S \ {x})
MaxOver(f) == CHOOSE m \in {f[x] : x \in DOMAIN f} : \A x \in DOMAIN f : f[x] <= m

\* C4 as stated: the returned probabilities, rounded to 4 digits, sum to 1.0
\* within 1e-6 (less than one unit of 1e-4, so exactly 10000 units), and the
\* returned confidence is the maximum of the returned probabilities.
C4_RoundedSumIsOne ==
    Succeeded =>
        /\ SumOver(Res.probabilities, DOMAIN Res.probabilities) = 10000
        /\ Res.confidence = MaxOver(Res.probabilities)

\* C4 amended: the returned probabilities sum to 1.0 within 1.5e-4 (each of
\* the at most three entries is moved by at most 5e-5 by its rounding), and
\* the returned confidence is the maximum of the returned probabilities.
C4_RoundedSumNearOne ==
    Succeeded =>
        LET total == SumOver(Res.probabilities, DOMAIN Res.probabilities)
        IN  /\ 2 * (total - 10000) <= 3
            /\ 2 * (10000 - total) <= 3
            /\ Res.confidence = MaxOver(Res.probabilities)

\* C4 witness: three probabilities of one third each, returned as 0.3333
C4_Witness ==
    /\ Succeeded
    /\ DOMAIN Res.probabilities = {"low", "medium", "high"}
    /\ SumOver(Res.probabilities, DOMAIN Res.probabilities) = 9999
    /\ Res.confidence = 3333

\* the input of the last predict passed validation
PassedValidation ==
    /\ PredictedOnDict
    /\ validate_input(Self, call.data).exc = ""
    /\ validate_input(Self, call.data).valid

\* C5: every input that passes validation gets, from every model the service
\* can hold, a stress_level in {low, medium, high}, a confidence in [0, 1] and
\* probabilities over exactly {low, medium, high}.
C5_ValidInputGetsFullPrediction ==
    PassedValidation =>
        /\ call.out.exc = ""
        /\ Res.stress_level \in {"low", "medium", "high"}
        /\ Res.confidence \in 0..10000
        /\ DOMAIN Res.probabilities = {"low", "medium", "high"}

\* the feature vector predict builds from the input
FeaturesOf(data) ==
    [i \in 1..Len(feature_names) |-> float(data.vals[feature_names[i]])]

\* the model's probability, rounded as predict rounds, for the class with
\* label c: 0 when it was not fitted on that class
ModelProbability(model, features, c) ==
    IF \E j \in 1..Len(model.classes) : model.classes[j] = c
    THEN LET j == CHOOSE k \in 1..Len(model.classes) : model.classes[k] = c
         IN  Round4(predict_proba(model, features)[j],
                    SumSeq(predict_proba(model, features)))
    ELSE 0

\* C6: in every successful result the probability under stress_classes[i] is
\* the model's probability for the class encoded i, and stress_level is the
\* label of the class the model predicted, whatever classes it was fitted on.
C6_ProbabilitiesMatchClasses ==
    Succeeded =>
        /\ \A i \in 1..Len(stress_classes) :
              stress_classes[i] \in DOMAIN Res.probabilities =>
                  Res.probabilities[stress_classes[i]] =
                      ModelProbability(Self.model, FeaturesOf(call.data), i - 1)
        /\ LET c == model_predict(Self.model, FeaturesOf(call.data))
           IN  c \in 0..(Len(stress_classes) - 1)
                  /\ Res.stress_level = stress_classes[c + 1]

\* every value of the input is a non-negative real number and every key is there
ValidInput(data) ==
    /\ data.t = "dict"
    /\ MissingKeys(data) = {}
    /\ \A f \in data.keys : NonNegativeReal(data.vals[f])

\* C9: construction never fails because of the artifact: get_predictor
\* returns, and when the file is absent, unreadable or not deserializable the
\* instance holds a fitted mock model, on which predict of a valid input
\* returns a prediction, not an error.
C9_ConstructionNeverFails ==
    /\ call.op = "get_predictor" => call.out.exc = ""
    /\ (gpredictor # 0 /\ fs.kind \in {"absent", "unreadable", "corrupt"}) =>
          /\ Self.model \in MockModels
          /\ (call.op = "predict" /\ ValidInput(call.data)) =>
                /\ call.out.exc = ""
                /\ "error" \notin Res.keys
                /\ Res.stress_level \in {"low", "medium", "high"}

\* C9 witness: the artifact does not deserialize and a valid input was
\* predicted on
C9_Witness ==
    /\ fs.kind = "corrupt"
    /\ gpredictor # 0
    /\ call.op = "predict"
    /\ ValidInput(call.data)
    /\ call.out.exc = ""
    /\ Res.stress_level = "high"

(***************************************************************************)
(* batch_predict (SpecBatch)                                               *)
(***************************************************************************)
AllOrdinary == Dict(FeatureSet, [k \in FeatureSet |-> Ordinary])
With(f, v) == Dict(FeatureSet, [k \in FeatureSet |-> IF k = f THEN v ELSE Ordinary])

\* the elements of the batches: valid mappings that fall in different
\* leaves, invalid mappings, one whose validation raises, and non-mappings
BatchElements ==
    { AllOrdinary, With("heart_rate", PyStr("0.5")), With("gsr", PyInt(-1)),
      With("emg", PyBigInt),
      Dict({"heart_rate", "ecg"}, [k \in {"heart_rate", "ecg"} |-> Ordinary]) }
        \cup NonMappings

Batches == UNION { [1..n -> BatchElements] : n \in 0..MaxBatch }

InitBatch == fs \in Artifacts /\ InitCommon
NextBatch == GetPredictor \/ Deliver \/ BatchPredict(Batches)
SpecBatch == InitBatch /\ [][NextBatch]_vars

\* C7: batch_predict returns a list as long as its input whose i-th element
\* is predict of the i-th input; an element that is invalid, malformed or no
\* mapping at all gives an error result at its place and aborts nothing.
C7_BatchIsElementwise ==
    call.op = "batch_predict" =>
        /\ call.out.exc = ""
        /\ Len(Res) = Len(call.data)
        /\ \A i \in 1..Len(call.data) :
              /\ Returned(Res[i]) = predict(Self, call.data[i])
              /\ ~ValidInput(call.data[i]) => IsErrorResult(Res[i])

(***************************************************************************)
(* get_predictor under concurrent request threads (SpecSingleton)          *)
(***************************************************************************)
StartArtifacts ==
    {Absent, Unreadable, Corrupt, File(pickle_dump(Fit(<<0, 1, 2>>, 5, 1, "balanced")))}

InitSingleton == fs \in StartArtifacts /\ InitCommon
NextSingleton ==
    \E t \in Threads :
        \/ BeforeRequest(t)
        \/ TestNone(t)
        \/ Construct(t)
        \/ Store(t)
        \/ Return(t)
        \/ NextRequest(t)
SpecSingleton == InitSingleton /\ [][NextSingleton]_vars

\* C8: at most one StressPredictor is ever constructed (so the model is
\* loaded or mock-built once), and all calls of get_predictor return the same
\* instance, in every interleaving of the request threads.
C8_OneInstance ==
    /\ Len(heap) <= 1
    /\ \A t, u \in Threads :
          (pc[t] = "served" /\ pc[u] = "served" /\ held[t] # 0 /\ held[u] # 0)
              => held[t] = held[u]

(***************************************************************************)
(* Train, save, then serve (SpecRoundTrip)                                 *)
(***************************************************************************)
TestVectors == {AllOrdinary, With("heart_rate", PyStr("0.5"))}

\* the training run ends before the service is started
Offline == gpredictor = 0

InitRoundTrip == fs \in {Absent, Corrupt} /\ InitCommon
NextRoundTrip ==
    \/ Offline /\ Train(Datasets)
    \/ Offline /\ SaveModel
    \/ GetPredictor
    \/ Deliver
    \/ Predict(TestVectors)
SpecRoundTrip == InitRoundTrip /\ [][NextRoundTrip]_vars

\* the trainer's in-memory model, wrapped as the service wraps a model
InMemory ==
    [model |-> trainer.model, feature_names |-> feature_names,
     stress_classes |-> stress_classes]

\* C10: when a trained model has just been saved and a predictor is then
\* constructed on the same path, the predictor serves that model, not the
\* mock one, and on the fixed test vectors the loaded model gives the class
\* and the probabilities of the in-memory model, and predict the same result.
C10_RoundTrip ==
    [][(/\ call.op = "save_model"
        /\ call.out.res = TRUE
        /\ trainer.model.classes # <<>>
        /\ gpredictor = 0
        /\ call'.op = "get_predictor")
       => /\ gpredictor' # 0
          /\ heap'[gpredictor'].model \notin MockModels
          /\ \A v \in TestVectors :
                /\ predict(heap'[gpredictor'], v) = predict(InMemory, v)
                /\ ModelCheck(trainer.model, FeaturesOf(v)) = "" =>
                      /\ ModelCheck(heap'[gpredictor'].model, FeaturesOf(v)) = ""
                      /\ model_predict(heap'[gpredictor'].model, FeaturesOf(v))
                            = model_predict(trainer.model, FeaturesOf(v))
                      /\ predict_proba(heap'[gpredictor'].model, FeaturesOf(v))
                            = predict_proba(trainer.model, FeaturesOf(v))]_vars

\* C10 witness: the service holds the model the trainer saved and has
\* predicted on a test vector with it
C10_Witness ==
    /\ gpredictor # 0
    /\ trainer.model.classes = <<0, 1, 2>>
    /\ fs = File(pickle_dump(trainer.model))
    /\ Self.model = trainer.model
    /\ Succeeded
    /\ call.data = AllOrdinary
    /\ Res.stress_level = "high"

(***************************************************************************)
(* The HTTP layer (server/app.py): POST /api/predict and                   *)
(* POST /api/batch-predict (SpecApi)                                       *)
(***************************************************************************)
\* the greatest batch the endpoint accepts
BatchLimit == 100

\* a JSON array
PyList(items) == [t |-> "list", n |-> 0, s |-> "", items |-> items]

\* a request body that is no JSON document
Malformed == [t |-> "malformed", keys |-> {}, vals |-> [k \in {} |-> PyNone]]

\* a POST request: whether its content type is JSON, and its body
Request(is_json, body) == [is_json |-> is_json, body |-> body]

\* what a view function returns: the status, the JSON document, and whether
\* the predictor was called on the way
Response(status, json, called) == [status |-> status, json |-> json, called |-> called]

\* jsonify({'error': ...}) built by the view itself
ErrorBody(msg) == [keys |-> {"error"}, error |-> Error(msg, <<>>)]

\* request.get_json(): the parsed body, or BadRequest
get_json(req) ==
    IF req.body.t = "malformed"
    THEN [exc |-> "BadRequest", data |-> req.body]
    ELSE [exc |-> "", data |-> req.body]

\* the view function predict of app.py, app.predictor being self
api_predict(self, req) ==
    IF ~req.is_json
    THEN Response(400, ErrorBody("Content-Type must be application/json"), FALSE)
    ELSE IF get_json(req).exc # ""
    THEN Response(500, ErrorBody("Internal server error"), FALSE)
    ELSE IF get_json(req).data.t # "dict"
    THEN \* data.keys() raises AttributeError
         Response(500, ErrorBody("Internal server error"), FALSE)
    ELSE LET result == predict(self, get_json(req).data)
         IN  IF result.exc # ""
             THEN Response(500, ErrorBody("Internal server error"), TRUE)
             ELSE IF "error" \in result.res.keys /\ result.res.error # NoError
             THEN Response(400, result.res, TRUE)
             ELSE Response(200, result.res, TRUE)

\* the view function batch_predict of app.py, app.predictor being self
api_batch_predict(self, req) ==
    IF ~req.is_json
    THEN Response(400, ErrorBody("Content-Type must be application/json"), FALSE)
    ELSE IF get_json(req).exc # ""
    THEN Response(500, ErrorBody("Internal server error"), FALSE)
    ELSE LET data == get_json(req).data
             has == Contains(data, "data")
             item == GetItem(data, "data")
         IN  IF has.exc # ""
             THEN Response(500, ErrorBody("Internal server error"), FALSE)
             ELSE IF ~has.b
             THEN Response(400, ErrorBody("Request must contain data"), FALSE)
             ELSE IF item.exc # ""
             THEN Response(500, ErrorBody("Internal server error"), FALSE)
             ELSE IF item.v.t # "list"
             THEN Response(400, ErrorBody("Request must contain data"), FALSE)
             ELSE IF Len(item.v.items) = 0
             THEN Response(400, ErrorBody("Data list cannot be empty"), FALSE)
             ELSE IF Len(item.v.items) > BatchLimit
             THEN Response(400, ErrorBody("Batch size limited"), FALSE)
             ELSE LET results == batch_predict(self, item.v.items)
                  IN  IF results.exc # ""
                      THEN Response(500, ErrorBody("Internal server error"), TRUE)
                      ELSE Response(200,
                                    [keys |-> {"count", "predictions"},
                                     count |-> Len(results.res),
                                     predictions |-> results.res], TRUE)

\* the bodies posted to /api/predict: the batch elements, a mapping with an
\* infinite value (the JSON literal Infinity), and a body that does not parse
PredictBodies ==
    BatchElements \cup {With("heart_rate", PyFloat("inf", 1)), Malformed}

PredictRequests == { Request(j, b) : j \in BOOLEAN, b \in PredictBodies }

\* a body {"data": v}
DataBody(v) == Dict({"data"}, [k \in {"data"} |-> v])

\* the bodies posted to /api/batch-predict: no "data" key, "data" that is no
\* list, lists of 0..MaxBatch elements, lists of BatchLimit and BatchLimit + 1
\* valid elements, and bodies that are no JSON object
BatchBodies ==
    { Dict({}, [k \in {} |-> PyNone]), DataBody(PyStr("abc")), DataBody(PyNone),
      DataBody(PyInt(75)), Malformed,
      NonDict("list", {}), NonDict("none", {}), NonDict("str", {"data"}) }
        \cup { DataBody(PyList(b)) : b \in Batches }
        \cup { DataBody(PyList([i \in 1..n |-> AllOrdinary])) :
                  n \in {BatchLimit, BatchLimit + 1} }

BatchRequests ==
    { Request(TRUE, b) : b \in BatchBodies } \cup { Request(FALSE, DataBody(PyList(<<>>))) }

\* a view function has returned and its response is not yet sent
Responding == call.op \in {"POST /api/predict", "POST /api/batch-predict"}

\* before_request on a request that finds no app.predictor: get_predictor()
\* is called and its value stored (one request at a time)
AppBeforeRequest ==
    /\ ~Responding
    /\ app_predictor = 0
    /\ IF gpredictor # 0
       THEN /\ app_predictor' = gpredictor
            /\ UNCHANGED <<heap, gpredictor>>
       ELSE \E mock \in MockModels :
              LET new == StressPredictor(fs, mock)
              IN  IF new.exc # ""
                  THEN UNCHANGED <<heap, gpredictor, app_predictor>>
                  ELSE /\ heap' = Append(heap, new.obj)
                       /\ gpredictor' = Len(heap) + 1
                       /\ app_predictor' = Len(heap) + 1
    /\ call' = [op |-> "before_request", data |-> <<>>, out |-> Returned(<<>>)]
    /\ UNCHANGED <<fs, trainer, pc, held>>

\* POST /api/predict, for a req of requests
ApiPredict(requests) ==
    /\ app_predictor # 0
    /\ ~Responding
    /\ \E req \in requests :
          call' = [op |-> "POST /api/predict", data |-> req,
                   out |-> Returned(api_predict(heap[app_predictor], req))]
    /\ UNCHANGED <<fs, trainer, gpredictor, app_predictor, heap, pc, held>>

\* POST /api/batch-predict, for a req of requests
ApiBatchPredict(requests) ==
    /\ app_predictor # 0
    /\ ~Responding
    /\ \E req \in requests :
          call' = [op |-> "POST /api/batch-predict", data |-> req,
                   out |-> Returned(api_batch_predict(heap[app_predictor], req))]
    /\ UNCHANGED <<fs, trainer, gpredictor, app_predictor, heap, pc, held>>

\* the response is sent
Respond ==
    /\ Responding
    /\ call' = NoCall
    /\ UNCHANGED <<fs, trainer, gpredictor, app_predictor, heap, pc, held>>

InitApi == fs \in Artifacts /\ InitCommon
NextApi ==
    \/ AppBeforeRequest
    \/ ApiPredict(PredictRequests)
    \/ ApiBatchPredict(BatchRequests)
    \/ Respond
SpecApi == InitApi /\ [][NextApi]_vars

\* the request and the response of the last call of a view function
Req == call.data
Resp == call.out.res

\* C11: POST /api/predict with a JSON body answers 200 with stress_level,
\* confidence and probabilities for every payload that passes validation,
\* answers 400 with an error field whenever the predictor's result carries an
\* error, and never answers 5xx on a validation or inference failure.
C11_PredictEndpointStatus ==
    (call.op = "POST /api/predict" /\ Req.is_json /\ Req.body.t # "malformed") =>
        LET self == heap[app_predictor]
        IN  /\ Resp.status < 500
            /\ (Req.body.t = "dict"
                  /\ validate_input(self, Req.body).exc = ""
                  /\ validate_input(self, Req.body).valid) =>
                    /\ Resp.status = 200
                    /\ {"stress_level", "confidence", "probabilities"}
                          \subseteq Resp.json.keys
            /\ (Req.body.t = "dict"
                  /\ predict(self, Req.body).exc = ""
                  /\ "error" \in predict(self, Req.body).res.keys) =>
                    /\ Resp.status = 400
                    /\ "error" \in Resp.json.keys

\* the list under "data" in the body of a batch request, when there is one
IsListBody(req) ==
    /\ req.is_json
    /\ req.body.t = "dict"
    /\ "data" \in req.body.keys
    /\ req.body.vals["data"].t = "list"
DataOf(req) == req.body.vals["data"].items

\* C12: POST /api/batch-predict answers 400 without calling the predictor
\* when data is missing, no list, empty or longer than 100; for every list of
\* 1 to 100 elements it answers 200 with count the number of inputs and
\* predictions holding the result of each input, in input order.
C12_BatchEndpointBounds ==
    (call.op = "POST /api/batch-predict" /\ Req.is_json
        /\ Req.body.t = "dict") =>
        IF ~IsListBody(Req) \/ Len(DataOf(Req)) = 0 \/ Len(DataOf(Req)) > BatchLimit
        THEN Resp.status = 400 /\ ~Resp.called
        ELSE /\ Resp.status = 200
             /\ Resp.json.count = Len(DataOf(Req))
             /\ Len(Resp.json.predictions) = Len(DataOf(Req))
             /\ \A i \in 1..Len(DataOf(Req)) :
                   Returned(Resp.json.predictions[i])
                      = predict(heap[app_predictor], DataOf(Req)[i])

(***************************************************************************)
(* Preprocessing (ml_logic/preprocessing.py): remove_outliers              *)
(* (SpecOutliers).  A matrix is a sequence of rows of integers; numpy      *)
(* computes in floating point, which is exact on them except for the       *)
(* square root, so the comparison |x - mean| / std < threshold is made on  *)
(* the squares.                                                            *)
(***************************************************************************)
\* the sum of all entries, and of their squares
MatrixSum(X) == SumSeq([i \in 1..Len(X) |-> SumSeq(X[i])])
MatrixSumSq(X) ==
    SumSeq([i \in 1..Len(X) |-> SumSeq([j \in 1..Len(X[i]) |-> X[i][j] * X[i][j]])])
\* X.size
MatrixSize(X) == SumSeq([i \in 1..Len(X) |-> Len(X[i])])

\* np.abs((x - X.mean()) / X.std()) < threshold for one entry x: mean and
\* standard deviation are those of all the entries of X together; with a
\* standard deviation of 0 the quotient is nan (0/0), and nan < threshold is
\* False
ZScoreBelow(X, x, threshold) ==
    LET n == MatrixSize(X)
        dev == n * x - MatrixSum(X)
        var == n * MatrixSumSq(X) - MatrixSum(X) * MatrixSum(X)
    IN  IF var = 0 THEN FALSE
        ELSE dev * dev < threshold * threshold * var

\* remove_outliers(X, threshold): X[mask], mask = (z_scores < threshold).all(axis=1)
remove_outliers(X, threshold) ==
    SelectSeq(X, LAMBDA row : \A j \in 1..Len(row) : ZScoreBelow(X, row[j], threshold))

\* matrices of two features on different scales, and the thresholds
OutlierMatrices ==
    UNION { [1..n -> [1..2 -> {0, 1, 10}]] : n \in 1..MaxRows }
OutlierInputs == { [X |-> X, threshold |-> t] : X \in OutlierMatrices, t \in {1, 3} }

\* a preprocessing function has returned and the caller has not yet taken
\* its value
Computed == call.op \in {"remove_outliers", "augment_features"}

\* the caller takes the value
TakeValue ==
    /\ Computed
    /\ call' = NoCall
    /\ UNCHANGED <<fs, trainer, gpredictor, app_predictor, heap, pc, held>>

\* remove_outliers(X, threshold), for an input of inputs
RemoveOutliers(inputs) ==
    /\ ~Computed
    /\ \E in \in inputs :
          call' = [op |-> "remove_outliers", data |-> in,
                   out |-> Returned(remove_outliers(in.X, in.threshold))]
    /\ UNCHANGED <<fs, trainer, gpredictor, app_predictor, heap, pc, held>>

InitOutliers == fs = Absent /\ InitCommon
NextOutliers == RemoveOutliers(OutlierInputs) \/ TakeValue
SpecOutliers == InitOutliers /\ [][NextOutliers]_vars

\* column j of X
Column(X, j) == [i \in 1..Len(X) |-> X[i][j]]

\* |x - mean(col)| / std(col) < threshold, with mean and standard deviation
\* of the column col, and a z-score of 0 when the column has no variance
ColumnZScoreBelow(col, x, threshold) ==
    LET n == Len(col)
        dev == n * x - SumSeq(col)
        var == n * SumSeq([i \in 1..n |-> col[i] * col[i]]) - SumSeq(col) * SumSeq(col)
    IN  IF var = 0 THEN 0 < threshold
        ELSE dev * dev < threshold * threshold * var

Data(ds, mean, std, split) ==
    [labels |-> ds.labels, nfeat |-> ds.nfeat, w |-> ds.w, splits |-> ds.splits,
     fits |-> ds.fits, mean |-> mean, std |-> std, split |-> split]

\* StandardScaler().fit(X): the parameters of the heart_rate column
StandardScalerFit(X) == [mean |-> X.mean, std |-> X.std]

\* scaler.transform on one value of the heart_rate column
Transform(scaler, n) == ((n - scaler.mean) * 1000) \div scaler.std

\* preprocess_data(X): scaler.fit_transform(X); the scaler is a local and
\* only X_scaled is returned
preprocess_data(X) ==
    LET scaler == StandardScalerFit(X)
    IN  [X EXCEPT !.mean = 0, !.std = 1000, !.split = Transform(scaler, X.split)]

\* RandomForestClassifier(class_weight=...).fit on the matrix X: the forest
\* splits where the classes of X separate
FitData(X, class_weight) ==
    [Fit(X.labels, X.nfeat, X.w, class_weight) EXCEPT !.thr = X.split]

\* lines 197-208 of main on the data X, y, the write of save_model going as
\* io says and the model path holding file: the trainer main ends with, the
\* file it leaves, and the exception that escapes it
pipeline(X, io, file) ==
    LET X_scaled == preprocess_data(X)
        fitted == FitData(X_scaled, "balanced")
    IN  IF ~X_scaled.splits
        THEN [exc |-> "ValueError", trainer |-> NewTrainer, fs |-> file]
        ELSE IF ~X_scaled.fits
        THEN [exc |-> "ValueError",
              trainer |-> [NewTrainer EXCEPT !.model = Unfitted("balanced")],
              fs |-> file]
        ELSE [exc |-> "",
              trainer |-> [model |-> fitted, metrics |-> fitted],
              fs |-> CASE io = "ok" -> File(pickle_dump(fitted))
                       [] io = "dump" -> Corrupt
                       [] OTHER -> file]

\* the dataset file: absent, no CSV at all, or a table
Csv(kind, table) == [kind |-> kind, table |-> table]

\* load_data(data_path) with the dataset file being csv; data_path "None" is
\* the default.  The default path is built with os.path, and
\* preprocessing.py does not import os.
load_data(data_path, csv) ==
    IF data_path = "None" THEN [exc |-> "NameError", data |-> <<>>]
    ELSE IF csv.kind = "absent" THEN [exc |-> "FileNotFoundError", data |-> <<>>]
    ELSE IF csv.kind = "garbage" THEN [exc |-> "ParserError", data |-> <<>>]
    ELSE [exc |-> "", data |-> csv.table]

\* raw training data: heart rates around 50 with the classes separating at 50
\* (as Fit has it), or around 75 and separating at 70
RawData ==
    { Data(ds, 50000, 25000, 50000) : ds \in Datasets }
        \cup { Data(ds, 75000, 5000, 70000) : ds \in Datasets }

\* np.random.rand(200, 5) * 100 with np.random.choice([0, 1, 2], 200)
SyntheticData ==
    { Data(Dataset(labels, 5, w, TRUE, TRUE), 50000, 25000, 50000) :
        labels \in MockLabelSets, w \in Weights }

\* what the dataset file can be
CsvFiles ==
    {Csv("absent", <<>>), Csv("garbage", <<>>)} \cup { Csv("table", X) : X \in RawData }

\* the training script has not run yet: it runs once, before the service
NotRun == Offline /\ trainer = NewTrainer /\ call.op \in {"", "load_data"}

\* load_data(data_path)
LoadData ==
    /\ NotRun
    /\ call.op = ""
    /\ \E data_path \in {"None", "data.csv"}, csv \in CsvFiles :
          call' = [op |-> "load_data", data |-> [data_path |-> data_path, csv |-> csv],
                   out |-> [exc |-> load_data(data_path, csv).exc,
                            res |-> load_data(data_path, csv).data]]
    /\ UNCHANGED <<fs, trainer, gpredictor, app_predictor, heap, pc, held>>

\* lines 197-208 of main, run on data that was loaded: preprocess, train, save
TrainingPipeline(datasets) ==
    /\ NotRun
    /\ \E X \in datasets, io \in {"ok", "open", "dump"} :
          LET run == pipeline(X, io, fs)
          IN  /\ trainer' = run.trainer
              /\ fs' = run.fs
              /\ call' = [op |-> "pipeline", data |-> X,
                          out |-> IF run.exc # "" THEN Raised(run.exc)
                                  ELSE Returned("completed")]
    /\ UNCHANGED <<gpredictor, app_predictor, heap, pc, held>>

\* main(): load_data(), synthetic data on FileNotFoundError, then the pipeline
Main ==
    /\ NotRun
    /\ \E csv \in CsvFiles, synthetic \in SyntheticData, io \in {"ok", "open", "dump"} :
          LET loaded == load_data("None", csv)
              run == pipeline(IF loaded.exc = "" THEN loaded.data ELSE synthetic, io, fs)
          IN  IF loaded.exc \notin {"", "FileNotFoundError"}
              THEN /\ call' = [op |-> "main", data |-> [csv |-> csv],
                               out |-> Raised(loaded.exc)]
                   /\ UNCHANGED <<trainer, fs>>
              ELSE /\ trainer' = run.trainer
                   /\ fs' = run.fs
                   /\ call' = [op |-> "main", data |-> [csv |-> csv],
                               out |-> IF run.exc # "" THEN Raised(run.exc)
                                       ELSE Returned("completed")]
    /\ UNCHANGED <<gpredictor, app_predictor, heap, pc, held>>

InitPipeline == fs = Absent /\ InitCommon
NextPipeline ==
    \/ LoadData
    \/ Main
    \/ TrainingPipeline(RawData)
    \/ GetPredictor
    \/ Deliver
    \/ Predict(TestVectors)
SpecPipeline == InitPipeline /\ [][NextPipeline]_vars

\* the input v with its heart_rate scaled by scaler
ScaledInput(scaler, v) ==
    With("heart_rate", PyFloat("fin", Transform(scaler, float(v.vals["heart_rate"]).n)))

\* C14: the feature vector handed to the model at inference has undergone
\* the preprocessing of the vectors the model was fitted on: when the
\* pipeline has trained on standardized data and saved the model, a service
\* constructed on that artifact answers a raw input as the trained model
\* answers that input scaled with the parameters fitted in training.
C14_InferenceUsesTrainingScale ==
    (call.op = "pipeline" /\ call.out = Returned("completed")
        /\ fs = File(pickle_dump(trainer.model))) =>
        \A v \in TestVectors, mock \in MockModels :
            LET served == StressPredictor(fs, mock).obj
                scaler == StandardScalerFit(call.data)
            IN  predict(served, v) = Returned(Infer(InMemory, ScaledInput(scaler, v)))

\* C19: a missing dataset file is reported by load_data as a not-found error,
\* for an explicit path and for the default path, and main() reacts by
\* training on synthetic data (5 features, labels in {0,1,2}) and runs
\* preprocessing, training and saving to completion.
C19_MissingDatasetFallsBack ==
    /\ (call.op = "load_data" /\ call.data.csv.kind = "absent") =>
          call.out.exc = "FileNotFoundError"
    /\ (call.op = "main" /\ call.data.csv.kind = "absent") =>
          /\ call.out = Returned("completed")
          /\ trainer.model.classes \in MockLabelSets
          /\ trainer.model.nfeat = 5

(***************************************************************************)
(* The predictor's fields under use (SpecFrame).  predict returns          *)
(* 'features_used': self.feature_names, the list object itself, so a       *)
(* caller that changes the list it received changes the instance's list.   *)
(***************************************************************************)
\* validate_input(data) on the shared instance, for a data of inputs
ValidateInput(inputs) ==
    /\ gpredictor # 0
    /\ ~Pending
    /\ \E data \in inputs :
          LET v == validate_input(heap[gpredictor], data)
          IN  call' = [op |-> "validate_input", data |-> data,
                       out |-> IF v.exc # "" THEN Raised(v.exc)
                               ELSE Returned(<<v.valid, v.error>>)]
    /\ UNCHANGED <<fs, trainer, gpredictor, app_predictor, heap, pc, held>>

\* list.pop() and list.clear() on a non-empty list
ListMutations(list) == { SubSeq(list, 1, Len(list) - 1), <<>> }

\* the caller changes the features_used list of a result it holds: of the
\* result of predict, or of an element of the result of batch_predict.  The
\* list is the instance's feature_names, in every result that has one.
MutateResult ==
    /\ Pending
    /\ call.out.exc = ""
    /\ heap[gpredictor].feature_names # <<>>
    /\ IF call.op = "predict"
       THEN "features_used" \in call.out.res.keys
       ELSE \E i \in 1..Len(call.out.res) : "features_used" \in call.out.res[i].keys
    /\ \E new \in ListMutations(heap[gpredictor].feature_names) :
          /\ heap' = [heap EXCEPT ![gpredictor].feature_names = new]
          /\ call' =
                IF call.op = "predict"
                THEN [call EXCEPT !.out.res.features_used = new]
                ELSE [call EXCEPT !.out.res =
                        [i \in 1..Len(call.out.res) |->
                            IF "features_used" \in call.out.res[i].keys
                            THEN [call.out.res[i] EXCEPT !.features_used = new]
                            ELSE call.out.res[i]]]
    /\ UNCHANGED <<fs, trainer, gpredictor, app_predictor, pc, held>>

InitFrame == fs \in StartArtifacts /\ InitCommon
NextFrame ==
    \/ GetPredictor
    \/ Deliver
    \/ ValidateInput(BatchElements)
    \/ Predict(BatchElements)
    \/ BatchPredict(Batches)
    \/ MutateResult
SpecFrame == InitFrame /\ [][NextFrame]_vars

\* C15: once a predictor is constructed its model, feature_names and
\* stress_classes never change, whatever validate_input, predict and
\* batch_predict calls are made and whatever callers do to the results they
\* received.
C15_FieldsFrozen ==
    [][\A i \in 1..Len(heap) : heap'[i] = heap[i]]_vars

(***************************************************************************)
(* The trainer's lifecycle (SpecRoundTrip)                                 *)
(***************************************************************************)
\* C16: over any sequence of train and save_model calls, an artifact is
\* written only from a successfully fitted model (with no model save_model
\* returns False), a successful train replaces both the model and the
\* metrics, and the stored metrics always describe the model currently held,
\* also after a train call that failed in the split or in the fit.
C16_TrainerLifecycle ==
    /\ trainer.metrics = trainer.model
    /\ fs.kind = "file" => pickle_load(fs.bytes).classes # <<>>
    /\ (call.op = "save_model" /\ trainer.model = NoModel) => call.out.res = FALSE
    /\ (call.op = "save_model" /\ call.out.res = TRUE) => trainer.model.classes # <<>>
    /\ (call.op = "train" /\ call.out.exc = "") =>
          /\ trainer.model =
                Fit(call.data.labels, call.data.nfeat, call.data.w, "balanced")
          /\ trainer.metrics = trainer.model

\* C17: a failure to save is not fatal and leaves the trainer as it was:
\* save_model never raises, it returns True only when the artifact was
\* written, and after the call the in-memory model and metrics are those
\* from before it, giving the same predictions.
C17_SaveFailureIsRecoverable ==
    [][call'.op = "save_model" =>
          /\ call'.out.exc = ""
          /\ call'.out.res \in BOOLEAN
          /\ call'.out.res = TRUE => fs' = File(pickle_dump(trainer.model))
          /\ trainer' = trainer
          /\ \A v \in TestVectors :
                predict([model |-> trainer'.model, feature_names |-> feature_names,
                         stress_classes |-> stress_classes], v)
                    = predict(InMemory, v)]_vars

\* C17 witness: a trained model is held, the write failed half-way and left
\* no readable artifact, and save_model returned False
C17_Witness ==
    /\ call.op = "save_model"
    /\ call.out = Returned(FALSE)
    /\ trainer.model.classes = <<0, 1, 2>>
    /\ trainer.metrics = trainer.model
    /\ fs = Corrupt

(***************************************************************************)
(* Preprocessing: augment_features (SpecAugment).  The base columns are    *)
(* integers; a quotient is kept exact, as numerator and denominator in     *)
(* millionths, the unit of the 1e-6 added to each divisor.                 *)
(***************************************************************************)
\* a / (b + 1e-6)
RatioEps(a, b) == [num |-> a * 1000000, den |-> b * 1000000 + 1]

\* the row augment_features builds from a row of at least 5 columns
AugmentRow(row) ==
    LET hr == row[1]
        ecg == row[2]
        emg == row[3]
        gsr == row[4]
        resp == row[5]
    IN  row \o <<RatioEps(hr, ecg), emg * gsr, RatioEps(resp, hr)>>

\* augment_features(X): X[:, 4] raises IndexError when X has fewer than 5
\* columns; no other test of the shape is made
augment_features(X) ==
    IF Len(X[1]) < 5 THEN Raised("IndexError")
    ELSE Returned([i \in 1..Len(X) |-> AugmentRow(X[i])])

\* matrices of 4, 5 and 6 columns
AugmentMatrices ==
    UNION { [1..n -> [1..c -> {1, 2}]] : n \in 1..MaxAugRows, c \in {4, 5, 6} }

\* augment_features(X), for an X of matrices
AugmentFeatures(matrices) ==
    /\ ~Computed
    /\ \E X \in matrices :
          call' = [op |-> "augment_features", data |-> X, out |-> augment_features(X)]
    /\ UNCHANGED <<fs, trainer, gpredictor, app_predictor, heap, pc, held>>

InitAugment == fs = Absent /\ InitCommon
NextAugment == AugmentFeatures(AugmentMatrices) \/ TakeValue
SpecAugment == InitAugment /\ [][NextAugment]_vars

\* C18: augment_features accepts exactly the matrices of 5 columns: for
\* them it returns the rows of X in order, each with hr/(ecg+eps), emg*gsr
\* and resp/(hr+eps) appended to its 5 unchanged base columns; for a matrix
\* of fewer or more than 5 columns it fails and returns nothing.
C18_FiveColumnsOnly ==
    call.op = "augment_features" =>
        IF Len(call.data[1]) = 5
        THEN /\ call.out.exc = ""
             /\ Len(Res) = Len(call.data)
             /\ \A i \in 1..Len(call.data) :
                   /\ Len(Res[i]) = 8
                   /\ SubSeq(Res[i], 1, 5) = call.data[i]
                   /\ Res[i][6] = RatioEps(call.data[i][1], call.data[i][2])
                   /\ Res[i][7] = call.data[i][3] * call.data[i][4]
                   /\ Res[i][8] = RatioEps(call.data[i][5], call.data[i][1])
        ELSE call.out.exc # ""

====
